---- MODULE Spec2Model ----
(***************************************************************************)
(* State-machine model of src/bot.py: the PriceTracker subscription store, *)
(* the track/stop/start command handlers and the _track_price polling      *)
(* coroutine, one asyncio task per subscription.                           *)
(*                                                                         *)
(* Scheduling: asyncio is single threaded, so every stretch of code        *)
(* between two awaits is one atomic step.  Command handlers run one after  *)
(* another (the Application processes updates sequentially); a handler is  *)
(* cut at the sends it awaits, the sink's answers being inputs.  What a    *)
(* handler does after its first await reads and writes nothing the tasks   *)
(* share, so its remaining steps commute with theirs: the model lets the   *)
(* handler finish before the next task step.                               *)
(* The polling coroutine is cut at its awaits: the provider request, the   *)
(* send_message calls and asyncio.sleep.  Task.cancel() makes the task's   *)
(* next step raise CancelledError at the await it is suspended in;         *)
(* CancelledError is a BaseException (Python >= 3.8), so the coroutine's   *)
(* `except Exception` does not catch it and the task ends.                 *)
(***************************************************************************)
EXTENDS Integers, Sequences, FiniteSets, TLC

\* ---------------------------------------------------------------- bounds
NumChats == 2          \* chat ids 1..NumChats
NumContracts == 2      \* contract addresses 1..NumContracts (distinct non-empty strings)
NumNetworks == 2       \* network names 1..NumNetworks
MaxIntervalArg == 2    \* numeric interval arguments 0..MaxIntervalArg of Spec
MaxLoopInterval == 5   \* accepted interval arguments 1..MaxLoopInterval of SpecLoop
MaxPrice == 2          \* provider prices 1..MaxPrice
MaxTasks == 2          \* asyncio tasks alive at once (task ids 1..MaxTasks)

Chats == 1..NumChats
Contracts == 1..NumContracts
Networks == 1..NumNetworks
TaskIds == 1..MaxTasks

\* ------------------------------------------------------- program constants
None == -1             \* Python None: an absent argument or JSON field
Garbage == -2          \* text that float()/int() reject with ValueError
HTTP_OK == 200
HTTP_ERR == 500        \* some status other than 200
SECONDS == 60

allowed_intervals == {1, 5, 15, 30, 60}

VARIABLES
    active_trackers,   \* chat_id -> sequence of <<network, contract_address>>
    tasks,             \* chat_id -> sequence of task ids
    initial_prices,    \* chat_id -> [contract_address -> price]
    initial_fdv,       \* chat_id -> [contract_address -> fdv]
    alert_intervals,   \* chat_id -> [contract_address -> minutes]
    coro,              \* task id -> frame of its _track_price coroutine
    handler            \* the command handler in progress and the reply it awaits

vars == <<active_trackers, tasks, initial_prices, initial_fdv, alert_intervals, coro, handler>>

\* ------------------------------------------------------------ dict helpers
Empty == [x \in {} |-> 0]

Put(d, k, v) == [x \in (DOMAIN d) \cup {k} |-> IF x = k THEN v ELSE d[x]]

Del(d, k) == [x \in (DOMAIN d) \ {k} |-> d[x]]

RemoveAt(s, i) == SubSeq(s, 1, i - 1) \o SubSeq(s, i + 1, Len(s))

\* The store and the task table as one value, so that the methods of
\* PriceTracker are operators from a state to a state.
Store == [active_trackers |-> active_trackers, tasks |-> tasks,
          initial_prices |-> initial_prices, initial_fdv |-> initial_fdv,
          alert_intervals |-> alert_intervals, coro |-> coro]

PriceTracker == [active_trackers |-> Empty, tasks |-> Empty, initial_prices |-> Empty,
                 initial_fdv |-> Empty, alert_intervals |-> Empty, coro |-> Empty]

\* A message handed to the messaging sink.  A price update carries the
\* current and the baseline figures it renders and the rendered 5-minute
\* volume and percentage (texts are sequences of characters); every other
\* text carries 0 and no rendering.
Msg(text, addr, price, fdv, start_price, start_fdv, vol_5m_str, percentage_str) ==
    [text |-> text, addr |-> addr, price |-> price, fdv |-> fdv,
     initial_price |-> start_price, initial_fdv |-> start_fdv,
     vol_5m_str |-> vol_5m_str, percentage_str |-> percentage_str]

Notice(text, addr) == Msg(text, addr, 0, 0, 0, 0, <<>>, <<>>)

\* ------------------------------------------------------------- rendering
\* Numbers are whole; a rendered text is the sequence of its characters.
DigitChars == <<"0", "1", "2", "3", "4", "5", "6", "7", "8", "9">>

RECURSIVE Decimal(_)
\* str(n) for a natural number n.
Decimal(n) ==
    IF n < 10 THEN <<DigitChars[n + 1]>>
    ELSE Decimal(n \div 10) \o <<DigitChars[(n % 10) + 1]>>

\* f"{num/unit:.1f}" for num >= 0: one decimal, rounded to the nearest tenth.
Fixed1(num, unit) ==
    LET tenths == (num * 10 + unit \div 2) \div unit
    IN  Decimal(tenths \div 10) \o <<".">> \o <<DigitChars[(tenths % 10) + 1]>>

\* Lines 18-27.
format_large_number(num) ==
    IF num >= 1000000000 THEN Fixed1(num, 1000000000) \o <<"B">>
    ELSE IF num >= 1000000 THEN Fixed1(num, 1000000) \o <<"M">>
    ELSE IF num >= 1000 THEN Fixed1(num, 1000) \o <<"K">>
    ELSE Fixed1(num, 1)

\* Line 40.  The grave accent cannot stand in a TLA+ string and is written
\* by name; no text rendered here holds one.
special_chars ==
    {"_", "*", "[", "]", "(", ")", "~", "grave", ">", "#", "+", "-", "=", "|", "{", "}", ".", "!"}

RECURSIVE escape_markdown(_)
\* Lines 38-43: a backslash before every special character.
escape_markdown(text) ==
    IF text = <<>> THEN <<>>
    ELSE (IF Head(text) \in special_chars THEN <<"\\", Head(text)>> ELSE <<Head(text)>>)
         \o escape_markdown(Tail(text))

\* Line 181: f"{price_percentage:+.2f}%" if price_percentage != 0 else "0%".
percentage_text(price_percentage) ==
    IF price_percentage # 0
    THEN <<IF price_percentage > 0 THEN "+" ELSE "-">>
         \o Decimal(IF price_percentage > 0 THEN price_percentage ELSE 0 - price_percentage)
         \o <<".", "0", "0", "%">>
    ELSE <<"0", "%">>

NoMsg == Notice("", 0)

\* ------------------------------------------------------------ asyncio tasks
\* asyncio.create_task(self._track_price(chat_id, network, contract_address, context)):
\* the frame of a coroutine that has not run yet.  pc names the await the
\* coroutine is suspended in: "start" (created, not yet scheduled), "fetch"
\* (session.get / response.json), "send" (a send_message inside the try
\* block), "sendErr" (the send_message of the except handler), "sleep"
\* (asyncio.sleep), "raised" (ended by an exception that left the loop).
create_task(chat_id, network, contract_address) ==
    [chat_id |-> chat_id, network |-> network, contract_address |-> contract_address,
     is_first_message |-> TRUE, pc |-> "start", cancelled |-> FALSE,
     msg |-> NoMsg, delay |-> 0]

\* A cancel() that is never called: the task is dropped from the lists and keeps running.
cancel_forgotten(k) == k

\* Task.cancel(): a no-op on a task that is done, else a cancellation request
\* that the task meets at its next step.
cancel(k) == IF k.pc = "raised" THEN k ELSE [k EXCEPT !.cancelled = TRUE]

\* Cancel every task of the set ts.
cancel_all(c, ts) == [t \in DOMAIN c |-> IF t \in ts THEN cancel(c[t]) ELSE c[t]]

Range(seq) == {seq[i] : i \in 1..Len(seq)}

Referenced(s) == UNION {Range(s.tasks[c]) : c \in DOMAIN s.tasks}

\* A finished task that no list holds any more is released.
collect(s) ==
    [s EXCEPT !.coro = [t \in {u \in DOMAIN s.coro :
                                   s.coro[u].pc # "raised" \/ u \in Referenced(s)}
                            |-> s.coro[t]]]

\* The id the next created task gets (0: the task table is full).
FreeTask(s) ==
    IF TaskIds \ DOMAIN s.coro = {} THEN 0
    ELSE CHOOSE t \in TaskIds \ DOMAIN s.coro : \A u \in TaskIds \ DOMAIN s.coro : t <= u

\* ------------------------------------------------- PriceTracker.start_tracking
\* Lines 55-60: the chat's five entries are created before any check.
init_chat(s, chat_id) ==
    IF chat_id \notin DOMAIN s.active_trackers
    THEN [s EXCEPT !.active_trackers = Put(@, chat_id, <<>>),
                   !.tasks = Put(@, chat_id, <<>>),
                   !.initial_prices = Put(@, chat_id, Empty),
                   !.initial_fdv = Put(@, chat_id, Empty),
                   !.alert_intervals = Put(@, chat_id, Empty)]
    ELSE s

\* A duplicate check that compares the whole (network, address) pair.
is_duplicate_pair(s, chat_id, network, contract_address) ==
    \E i \in 1..Len(s.active_trackers[chat_id]) :
        s.active_trackers[chat_id][i] = <<network, contract_address>>

\* Line 63: any(addr == contract_address for _, addr in active_trackers[chat_id]);
\* the network of the pair takes no part in the comparison.
is_duplicate(s, chat_id, network, contract_address) ==
    \E i \in 1..Len(s.active_trackers[chat_id]) :
        s.active_trackers[chat_id][i][2] = contract_address

\* A range check in place of the membership test.
valid_interval_range(interval) == interval >= 1 /\ interval <= 60

\* Line 71.
valid_interval(interval) == interval \in allowed_intervals

\* The created task is not kept: line 84 is missing.
register_unheld(s, chat_id, network, contract_address, interval, t) ==
    [s EXCEPT !.active_trackers[chat_id] = Append(@, <<network, contract_address>>),
              !.alert_intervals[chat_id] = Put(@, contract_address, interval),
              !.coro = Put(@, t, create_task(chat_id, network, contract_address))]

\* Lines 79-84: the pair, its interval and its task, appended in parallel.
register(s, chat_id, network, contract_address, interval, t) ==
    [s EXCEPT !.active_trackers[chat_id] = Append(@, <<network, contract_address>>),
              !.alert_intervals[chat_id] = Put(@, contract_address, interval),
              !.coro = Put(@, t, create_task(chat_id, network, contract_address)),
              !.tasks[chat_id] = Append(@, t)]

\* The state start_tracking leaves and the text it sends to the chat.
start_tracking(s, chat_id, network, contract_address, interval) ==
    LET s1 == init_chat(s, chat_id) IN
    IF is_duplicate(s1, chat_id, network, contract_address)
    THEN [s |-> s1, text |-> "Already tracking"]
    ELSE IF ~valid_interval(interval)
    THEN [s |-> s1, text |-> "Invalid interval"]
    ELSE [s |-> register(s1, chat_id, network, contract_address, interval, FreeTask(s1)),
          text |-> "Started tracking"]

\* -------------------------------------------------- PriceTracker.stop_tracking
\* Lines 96-97: index of the first pair with that address (0 for None;
\* sequences are 1-based).
token_index(s, chat_id, contract_address) ==
    LET hits == {i \in 1..Len(s.active_trackers[chat_id]) :
                     s.active_trackers[chat_id][i][2] = contract_address} IN
    IF hits = {} THEN 0 ELSE CHOOSE i \in hits : \A j \in hits : i <= j

\* The first task of the chat in place of the one at token_index.
task_at_head(s, chat_id, token_idx) == s.tasks[chat_id][1]

\* Line 99: the task cancelled for the pair found at token_index.
task_at(s, chat_id, token_idx) == s.tasks[chat_id][token_idx]

\* A cleanup that leaves the chat's valuations behind: line 114 is missing.
cleanup_partial(s, chat_id) ==
    IF s.active_trackers[chat_id] = <<>>
    THEN [s EXCEPT !.active_trackers = Del(@, chat_id),
                   !.tasks = Del(@, chat_id),
                   !.initial_prices = Del(@, chat_id),
                   !.alert_intervals = Del(@, chat_id)]
    ELSE s

\* Lines 110-115: the chat's five entries go once its list is empty.
cleanup(s, chat_id) ==
    IF s.active_trackers[chat_id] = <<>>
    THEN [s EXCEPT !.active_trackers = Del(@, chat_id),
                   !.tasks = Del(@, chat_id),
                   !.initial_prices = Del(@, chat_id),
                   !.initial_fdv = Del(@, chat_id),
                   !.alert_intervals = Del(@, chat_id)]
    ELSE s

\* Stop one token and keep its baseline: lines 102-105 are missing.
stop_one_keeps_baseline(s, chat_id, contract_address, token_idx) ==
    LET s1 == [s EXCEPT !.coro = cancel_all(@, {task_at(s, chat_id, token_idx)}),
                        !.tasks[chat_id] = RemoveAt(@, token_idx),
                        !.active_trackers[chat_id] = RemoveAt(@, token_idx),
                        !.alert_intervals[chat_id] = Del(@, contract_address)]
    IN  collect(cleanup(s1, chat_id))

\* Lines 99-116: stop one token.
stop_one(s, chat_id, contract_address, token_idx) ==
    LET s1 == [s EXCEPT !.coro = cancel_all(@, {task_at(s, chat_id, token_idx)}),
                        !.tasks[chat_id] = RemoveAt(@, token_idx),
                        !.active_trackers[chat_id] = RemoveAt(@, token_idx),
                        !.initial_prices[chat_id] = Del(@, contract_address),
                        !.initial_fdv[chat_id] = Del(@, contract_address),
                        !.alert_intervals[chat_id] = Del(@, contract_address)]
    IN  collect(cleanup(s1, chat_id))

\* A batch stop that cancels nothing: lines 119-120 are missing.
stop_all_uncancelled(s, chat_id) ==
    collect([s EXCEPT !.tasks = Del(@, chat_id),
                      !.active_trackers = Del(@, chat_id),
                      !.initial_prices = Del(@, chat_id),
                      !.initial_fdv = Del(@, chat_id),
                      !.alert_intervals = Del(@, chat_id)])

\* A batch stop that leaves the chat's intervals behind.
stop_all_leaky(s, chat_id) ==
    collect([s EXCEPT !.coro = cancel_all(@, Range(s.tasks[chat_id])),
                      !.tasks = Del(@, chat_id),
                      !.active_trackers = Del(@, chat_id),
                      !.initial_prices = Del(@, chat_id),
                      !.initial_fdv = Del(@, chat_id)])

\* Lines 119-126: stop every token of the chat.
stop_all(s, chat_id) ==
    collect([s EXCEPT !.coro = cancel_all(@, Range(s.tasks[chat_id])),
                      !.tasks = Del(@, chat_id),
                      !.active_trackers = Del(@, chat_id),
                      !.initial_prices = Del(@, chat_id),
                      !.initial_fdv = Del(@, chat_id),
                      !.alert_intervals = Del(@, chat_id)])

\* The `else` of line 117 attached to the inner `if`: an unknown contract
\* stops every token.
stop_tracking_dangling_else(s, chat_id, contract_address) ==
    IF chat_id \notin DOMAIN s.active_trackers
    THEN [s |-> s, ret |-> FALSE]
    ELSE IF contract_address # None /\ token_index(s, chat_id, contract_address) # 0
    THEN [s |-> stop_one(s, chat_id, contract_address,
                         token_index(s, chat_id, contract_address)), ret |-> TRUE]
    ELSE [s |-> stop_all(s, chat_id), ret |-> TRUE]

\* The state stop_tracking leaves and the value it returns.
\* contract_address = None stands for the omitted argument.
stop_tracking(s, chat_id, contract_address) ==
    IF chat_id \notin DOMAIN s.active_trackers
    THEN [s |-> s, ret |-> FALSE]
    ELSE IF contract_address # None
    THEN LET token_idx == token_index(s, chat_id, contract_address) IN
         IF token_idx # 0
         THEN [s |-> stop_one(s, chat_id, contract_address, token_idx), ret |-> TRUE]
         ELSE [s |-> s, ret |-> FALSE]
    ELSE [s |-> stop_all(s, chat_id), ret |-> TRUE]

\* ---------------------------------------------------- PriceTracker._track_price
\* What one provider request can come to: the request raises (transport), or
\* it answers with a status and a body; a body is malformed (response.json()
\* raises, or the document is not the object the code indexes) or carries
\* price_usd, fdv_usd and the included pools, each field absent (None), not a
\* number (Garbage) or a number.
Response(raises, status, wellformed, price, fdv, included) ==
    [raises |-> raises, status |-> status, wellformed |-> wellformed,
     price |-> price, fdv |-> fdv, included |-> included]

Pool(pct, vol) == [m5pct |-> pct, m5vol |-> vol]

\* The answers with a usable price, one per price: the lowest price comes
\* without valuation and without pools, a higher price p with a valuation
\* and one pool.
Snapshot(p) ==
    IF p = 1 THEN Response(FALSE, HTTP_OK, TRUE, p, None, <<>>)
    ELSE Response(FALSE, HTTP_OK, TRUE, p, p - 1, <<Pool(1, p)>>)

\* The answers the provider is taken to give: one of each kind the code
\* tells apart, and the snapshots.
Responses ==
    {Response(TRUE, 0, FALSE, None, None, <<>>),
     Response(FALSE, HTTP_ERR, FALSE, None, None, <<>>),
     Response(FALSE, HTTP_OK, FALSE, None, None, <<>>),
     Response(FALSE, HTTP_OK, TRUE, None, 1, <<>>),
     Response(FALSE, HTTP_OK, TRUE, Garbage, 1, <<>>),
     Response(FALSE, HTTP_OK, TRUE, 1, None, <<Pool(1, Garbage)>>)}
    \cup {Snapshot(p) : p \in 1..MaxPrice}

\* float(x) if x is not None else 0.0 (lines 163-165); Garbage raises ValueError.
float_or_zero(x) == IF x = None THEN 0 ELSE x

\* An unguarded included[0]: IndexError without pools.
vol_5m_unguarded(r) == IF r.included # <<>> THEN r.included[1].m5vol ELSE Garbage

\* Lines 150-157: the first pool's 5-minute figures, None without pools.
vol_5m(r) == IF r.included # <<>> THEN r.included[1].m5vol ELSE None

price_percentage_5m(r) == IF r.included # <<>> THEN r.included[1].m5pct ELSE None

\* Lines 162-165 raise ValueError.
conversion_fails(r) ==
    Garbage \in {r.price, r.fdv, vol_5m(r), price_percentage_5m(r)}

\* The coroutine suspends in a send_message of the try block (lines 206-226).
await_send(s, t, m) == [s EXCEPT !.coro[t].pc = "send", !.coro[t].msg = m]

\* No blanket handler: the exception leaves the loop and ends the task.
except_missing(s, t) == collect([s EXCEPT !.coro[t].pc = "raised"])

\* except Exception (lines 227-231): the handler's own send_message.
except_Exception(s, t) ==
    [s EXCEPT !.coro[t].pc = "sendErr",
              !.coro[t].msg = Notice("Error tracking", s.coro[t].contract_address)]

\* The baseline written on every successful fetch.
store_initial_always(s, t, price_float, fdv_float) ==
    LET k == s.coro[t] IN
    [s EXCEPT !.initial_prices[k.chat_id] = Put(@, k.contract_address, price_float),
              !.initial_fdv[k.chat_id] = Put(@, k.contract_address, fdv_float),
              !.coro[t].is_first_message = FALSE]

\* Lines 168-171: the baseline is written while is_first_message holds.
store_initial(s, t, price_float, fdv_float) ==
    LET k == s.coro[t] IN
    IF k.is_first_message
    THEN [s EXCEPT !.initial_prices[k.chat_id] = Put(@, k.contract_address, price_float),
                   !.initial_fdv[k.chat_id] = Put(@, k.contract_address, fdv_float),
                   !.coro[t].is_first_message = FALSE]
    ELSE s

\* Lines 185-211: the update message, its baseline read back from the store
\* (dict.get falls back to the current figures).
update_message(s, t, price_float, fdv_float, vol_5m_float, price_percentage) ==
    LET k == s.coro[t]
        ip == s.initial_prices[k.chat_id]
        iv == s.initial_fdv[k.chat_id]
    IN  Msg("update", k.contract_address, price_float, fdv_float,
            IF k.contract_address \in DOMAIN ip THEN ip[k.contract_address] ELSE price_float,
            IF k.contract_address \in DOMAIN iv THEN iv[k.contract_address] ELSE fdv_float,
            escape_markdown(<<"$">> \o format_large_number(vol_5m_float)),
            escape_markdown(percentage_text(price_percentage)))

\* Lines 138-226: the coroutine resumes with the provider's answer r and runs
\* to its next await.  A missing chat entry makes lines 169/185 raise KeyError.
on_response(s, t, r) ==
    LET k == s.coro[t] IN
    IF r.raises THEN except_Exception(s, t)
    ELSE IF r.status # HTTP_OK
    THEN await_send(s, t, Notice("Error fetching price", k.contract_address))
    ELSE IF ~r.wellformed THEN except_Exception(s, t)
    ELSE IF r.price = None
    THEN await_send(s, t, Notice("Could not fetch price", k.contract_address))
    ELSE IF conversion_fails(r)
    THEN await_send(s, t, Notice("Error formatting data", k.contract_address))
    ELSE IF k.chat_id \notin DOMAIN s.initial_prices THEN except_Exception(s, t)
    ELSE LET s1 == store_initial(s, t, r.price, float_or_zero(r.fdv)) IN
         await_send(s1, t, update_message(s1, t, r.price, float_or_zero(r.fdv),
                                          float_or_zero(vol_5m(r)),
                                          float_or_zero(price_percentage_5m(r))))

\* A wait of one minute whatever the Subscription's interval.
go_sleep_minute(s, t) ==
    [s EXCEPT !.coro[t].pc = "sleep", !.coro[t].msg = NoMsg, !.coro[t].delay = SECONDS]

\* Line 234: asyncio.sleep(self.alert_intervals[chat_id][contract_address] * 60),
\* outside the try block: a missing key ends the task with KeyError.
go_sleep(s, t) ==
    LET k == s.coro[t] IN
    IF k.chat_id \in DOMAIN s.alert_intervals
       /\ k.contract_address \in DOMAIN s.alert_intervals[k.chat_id]
    THEN [s EXCEPT !.coro[t].pc = "sleep", !.coro[t].msg = NoMsg,
                   !.coro[t].delay = s.alert_intervals[k.chat_id][k.contract_address] * SECONDS]
    ELSE collect([s EXCEPT !.coro[t].pc = "raised", !.coro[t].msg = NoMsg])

\* A send_message of the try block returns (ok) or raises (not ok): the
\* exception is caught at line 227.
send_done(s, t, ok) == IF ok THEN go_sleep(s, t) ELSE except_Exception(s, t)

\* A loop that, unable to report its error, stops the tracking of its chat.
senderr_done_stops_chat(s, t, ok) ==
    IF ok THEN go_sleep(s, t)
    ELSE stop_all([s EXCEPT !.coro[t].pc = "raised", !.coro[t].msg = NoMsg],
                  s.coro[t].chat_id)

\* The handler's send_message returns or raises; nothing catches the latter.
senderr_done(s, t, ok) ==
    IF ok THEN go_sleep(s, t)
    ELSE collect([s EXCEPT !.coro[t].pc = "raised", !.coro[t].msg = NoMsg])

\* The first step of the task, and the step after the sleep: the next
\* iteration of `while True` up to the provider request.
next_iteration(s, t) == [s EXCEPT !.coro[t].pc = "fetch", !.coro[t].delay = 0]

\* CancelledError caught by the blanket handler (a bare `except:`, or
\* `except Exception` before Python 3.8): the loop reports it and goes on.
throw_cancelled_swallowed(s, t) ==
    [s EXCEPT !.coro[t].cancelled = FALSE,
              !.coro[t].pc = "sendErr",
              !.coro[t].msg = Notice("Error tracking", s.coro[t].contract_address)]

\* CancelledError is thrown into the coroutine at its await; it passes
\* `except Exception`, the task ends cancelled and is released.
throw_cancelled(s, t) == [s EXCEPT !.coro = Del(@, t)]

\* ---------------------------------------------------------- command handlers
\* The argument lists of /track over networks nets and interval arguments ivs.
ArgsOver(nets, ivs) ==
    {<<>>} \cup {<<n>> : n \in nets}
    \cup {<<n, a>> : n \in nets, a \in Contracts}
    \cup {<<n, a, i>> : n \in nets, a \in Contracts, i \in ivs}

IntervalArgs == (0..MaxIntervalArg) \cup {Garbage}

TrackArgs == ArgsOver(Networks, IntervalArgs)

StopArgs == {<<>>} \cup {<<a>> : a \in Contracts}

\* A handler suspended in a send: the command, its chat, its arguments, the
\* text it is sending and the call that sends it (context.bot.send_message
\* inside start_tracking, or update.message.reply_text).
Awaiting(cmd, chat_id, args, text, via) ==
    [cmd |-> cmd, chat_id |-> chat_id, args |-> args, text |-> text, via |-> via]

Idle == Awaiting("idle", 0, <<>>, "", "")

\* track (lines 248-274) up to its first await.
track(s, chat_id, args) ==
    IF Len(args) < 2
    THEN [s |-> s, h |-> Awaiting("track", chat_id, args,
                                  "Please provide network and address", "reply_text")]
    ELSE IF Len(args) > 2 /\ args[3] = Garbage
    THEN [s |-> s, h |-> Awaiting("track", chat_id, args, "Invalid interval", "reply_text")]
    ELSE LET interval == IF Len(args) > 2 THEN args[3] ELSE 1
             r == start_tracking(s, chat_id, args[1], args[2], interval)
         IN  [s |-> r.s, h |-> Awaiting("track", chat_id, args, r.text, "send_message")]

\* stop (lines 276-286) up to its await.
stop(s, chat_id, args) ==
    LET contract_address == IF args # <<>> THEN args[1] ELSE None
        r == stop_tracking(s, chat_id, contract_address)
    IN  [s |-> r.s, ret |-> r.ret,
         h |-> Awaiting("stop", chat_id, args,
                        IF r.ret
                        THEN (IF contract_address # None THEN "Stopped tracking"
                              ELSE "Stopped tracking all tokens")
                        ELSE "Not tracking any token in this chat",
                        "reply_text")]

\* The awaited send returns (ok) or raises.  An exception of start_tracking's
\* send_message reaches `except Exception` of track (lines 270-274), which
\* replies "Invalid format"; an exception of reply_text leaves the handler.
after_send(h, ok) ==
    IF ~ok /\ h.via = "send_message"
    THEN Awaiting(h.cmd, h.chat_id, h.args, "Invalid format", "reply_text")
    ELSE Idle

\* ------------------------------------------------------------------ actions
Adopt(s) ==
    /\ active_trackers' = s.active_trackers
    /\ tasks' = s.tasks
    /\ initial_prices' = s.initial_prices
    /\ initial_fdv' = s.initial_fdv
    /\ alert_intervals' = s.alert_intervals
    /\ coro' = s.coro

store_vars == <<active_trackers, tasks, initial_prices, initial_fdv, alert_intervals, coro>>

\* price_tracker = PriceTracker() (line 237): five empty dicts, no task.
Init ==
    /\ active_trackers = PriceTracker.active_trackers
    /\ tasks = PriceTracker.tasks
    /\ initial_prices = PriceTracker.initial_prices
    /\ initial_fdv = PriceTracker.initial_fdv
    /\ alert_intervals = PriceTracker.alert_intervals
    /\ coro = PriceTracker.coro
    /\ handler = Idle

\* /start: the welcome text (lines 239-246).
StartCmd(chat_id) ==
    /\ handler = Idle
    /\ handler' = Awaiting("start", chat_id, <<>>, "Welcome", "reply_text")
    /\ UNCHANGED store_vars

\* /track.  A command that would create a task needs a free task id.
TrackCmd(chat_id, args) ==
    LET r == track(Store, chat_id, args) IN
    /\ handler = Idle
    /\ 0 \notin DOMAIN r.s.coro
    /\ Adopt(r.s)
    /\ handler' = r.h

\* /stop.
StopCmd(chat_id, args) ==
    LET r == stop(Store, chat_id, args) IN
    /\ handler = Idle
    /\ Adopt(r.s)
    /\ handler' = r.h

\* The send a handler awaits completes.
Replied(ok) ==
    /\ handler # Idle
    /\ handler' = after_send(handler, ok)
    /\ UNCHANGED store_vars

\* Task t is scheduled: it exists, nobody cancelled it, no handler is midway.
Live(t) == handler = Idle /\ t \in DOMAIN coro /\ ~coro[t].cancelled

\* The event loop runs a new task for the first time.
Run(t) ==
    /\ Live(t) /\ coro[t].pc = "start"
    /\ Adopt(next_iteration(Store, t))
    /\ UNCHANGED handler

\* The provider request completes with answer r.
Fetched(t, r) ==
    /\ Live(t) /\ coro[t].pc = "fetch"
    /\ Adopt(on_response(Store, t, r))
    /\ UNCHANGED handler

\* A send_message of the try block completes.
Delivered(t, ok) ==
    /\ Live(t) /\ coro[t].pc = "send"
    /\ Adopt(send_done(Store, t, ok))
    /\ UNCHANGED handler

\* The send_message of the except handler completes.
HandlerDelivered(t, ok) ==
    /\ Live(t) /\ coro[t].pc = "sendErr"
    /\ Adopt(senderr_done(Store, t, ok))
    /\ UNCHANGED handler

\* asyncio.sleep returns.
Wake(t) ==
    /\ Live(t) /\ coro[t].pc = "sleep"
    /\ Adopt(next_iteration(Store, t))
    /\ UNCHANGED handler

\* A task whose cancellation was requested is scheduled again.
Cancelled(t) ==
    /\ handler = Idle /\ t \in DOMAIN coro /\ coro[t].cancelled
    /\ Adopt(throw_cancelled(Store, t))
    /\ UNCHANGED handler

\* The steps of the system, for track command lines targs, provider answers
\* resps and answers hsink of the sink to the handlers' sends.
NextFor(targs, resps, hsink) ==
    \/ \E c \in Chats : StartCmd(c)
    \/ \E c \in Chats, args \in targs : TrackCmd(c, args)
    \/ \E c \in Chats, args \in StopArgs : StopCmd(c, args)
    \/ \E ok \in hsink : Replied(ok)
    \/ \E t \in TaskIds : Run(t)
    \/ \E t \in TaskIds, r \in resps : Fetched(t, r)
    \/ \E t \in TaskIds, ok \in BOOLEAN : Delivered(t, ok)
    \/ \E t \in TaskIds, ok \in BOOLEAN : HandlerDelivered(t, ok)
    \/ \E t \in TaskIds : Wake(t)
    \/ \E t \in TaskIds : Cancelled(t)

\* The command surface: every command line with an interval argument up to
\* MaxIntervalArg or none, the provider answering one snapshot, the sink
\* accepting the handlers' replies.
Next == NextFor(TrackArgs, {Snapshot(1)}, {TRUE})

Spec == Init /\ [][Next]_vars

\* The polling loops: every provider answer; the commands name one network
\* and an accepted interval up to MaxLoopInterval.
LoopArgs ==
    {a \in ArgsOver({1}, 1..MaxLoopInterval) : Len(a) = 3 /\ a[3] \in allowed_intervals}

NextLoop == NextFor(LoopArgs, Responses, {TRUE})

SpecLoop == Init /\ [][NextLoop]_vars

\* The sink of the handlers: the sends a handler awaits may raise; the
\* commands name one network.
SinkArgs == {a \in TrackArgs : Len(a) = 0 \/ a[1] = 1}

NextSink == NextFor(SinkArgs, {Snapshot(1)}, BOOLEAN)

SpecSink == Init /\ [][NextSink]_vars

\* ------------------------------------------------------- vocabulary of the claims
\* The Subscriptions registered in a store at: (chat, <<network, contract>>).
SubsOf(at) == UNION {{<<c, at[c][i]>> : i \in 1..Len(at[c])} : c \in DOMAIN at}

\* (chat, contract) is an active Subscription.
ActivePair(c, a) ==
    c \in DOMAIN active_trackers
    /\ \E i \in 1..Len(active_trackers[c]) : active_trackers[c][i][2] = a

\* The chat has no active Subscription.
NoSubscription(c) == \A a \in Contracts : ~ActivePair(c, a)

\* The tasks a chat's list holds in a task map tk.
TasksOf(tk, c) == IF c \in DOMAIN tk THEN Range(tk[c]) ELSE {}

\* The polling loops of (c, a) that nobody cancelled and that have not ended.
LoopsOf(k, c, a) ==
    {t \in DOMAIN k : k[t].chat_id = c /\ k[t].contract_address = a
                      /\ ~k[t].cancelled /\ k[t].pc # "raised"}

\* A step of task t that hands a message to the sink or begins an iteration.
StartsDelivery(t) ==
    /\ t \in DOMAIN coro /\ t \in DOMAIN coro'
    /\ coro'[t].pc \in {"send", "sendErr"} /\ coro'[t].pc # coro[t].pc

StartsIteration(t) ==
    /\ t \in DOMAIN coro /\ t \in DOMAIN coro'
    /\ coro'[t].pc = "fetch" /\ coro[t].pc # "fetch"

\* This step is a stop command of chat c whose stop_tracking returned True.
StopReturnedTrue(c) ==
    /\ handler = Idle /\ handler'.cmd = "stop" /\ handler'.chat_id = c
    /\ handler'.text \in {"Stopped tracking", "Stopped tracking all tokens"}

\* This step is the command cmd of chat c with arguments args.
Command(cmd, c, args) ==
    handler = Idle /\ handler'.cmd = cmd /\ handler'.chat_id = c /\ handler'.args = args

\* The numeric interval a track command line carries (1 when omitted).
IntervalOf(args) == IF Len(args) > 2 THEN args[3] ELSE 1

\* Command lines that reach start_tracking: two or three arguments, the
\* third a number.
StartArgs == {a \in TrackArgs : Len(a) >= 2 /\ IntervalOf(a) # Garbage}

\* ------------------------------------------------------------------------ C1
\* C1: when stop_tracking returns True, every task it took off the chat's
\* list has ended or carries a cancellation request; and a task that carries
\* one never again hands a message to the sink nor begins an iteration: its
\* only step is to end.
C1_StopSilencesLoops ==
    [][/\ \A c \in Chats : StopReturnedTrue(c) =>
             \A t \in TasksOf(tasks, c) \ TasksOf(tasks', c) :
                 t \notin DOMAIN coro' \/ coro'[t].cancelled
       /\ \A t \in DOMAIN coro : coro[t].cancelled =>
             /\ ~StartsDelivery(t) /\ ~StartsIteration(t)
             /\ t \in DOMAIN coro' => coro'[t] = coro[t]]_vars

\* A stop has just cancelled a loop whose send was in flight.
C1_Witness ==
    /\ handler.cmd = "stop" /\ handler.text = "Stopped tracking"
    /\ \E t \in DOMAIN coro : coro[t].cancelled /\ coro[t].pc = "send"
                              /\ coro[t].chat_id = handler.chat_id
                              /\ coro[t].contract_address = handler.args[1]

\* ------------------------------------------------------------------------ C2
\* C2: at most one Subscription per (chat, contract) in every state; and a
\* track command for a pair that is active, whatever its network and
\* interval, answers "Already tracking" and changes nothing: one
\* Subscription and one loop for the pair, network, interval and baseline as
\* before.
C2_AtMostOne ==
    \A c \in DOMAIN active_trackers : \A i, j \in 1..Len(active_trackers[c]) :
        active_trackers[c][i][2] = active_trackers[c][j][2] => i = j

\* C2: every step leaves at most one Subscription per (chat, contract), and
\* a track command for an active pair answers "Already tracking" and leaves
\* the store, the pair's one Subscription and its one loop as they were.
C2_DuplicateRejected ==
    [][/\ C2_AtMostOne'
       /\ \A c \in Chats, args \in StartArgs :
            (Command("track", c, args) /\ ActivePair(c, args[2])) =>
                /\ handler'.text = "Already tracking"
                /\ UNCHANGED store_vars
                /\ Cardinality({i \in 1..Len(active_trackers'[c]) :
                                    active_trackers'[c][i][2] = args[2]}) = 1
                /\ Cardinality(LoopsOf(coro', c, args[2])) <= 1
                /\ Cardinality({t \in TasksOf(tasks', c) :
                                    coro'[t].contract_address = args[2]}) = 1]_vars

\* A duplicate that names another network and another interval was rejected
\* for a pair whose baseline is already set.
C2_Witness ==
    /\ handler.cmd = "track" /\ handler.text = "Already tracking"
    /\ handler.args[2] \in DOMAIN initial_prices[handler.chat_id]
    /\ \E i \in 1..Len(active_trackers[handler.chat_id]) :
          /\ active_trackers[handler.chat_id][i][2] = handler.args[2]
          /\ active_trackers[handler.chat_id][i][1] # handler.args[1]
    /\ IntervalOf(handler.args) # alert_intervals[handler.chat_id][handler.args[2]]

\* ------------------------------------------------------------------------ C3
\* C3: a track command with a numeric interval outside {1, 5, 15, 30, 60} for
\* a pair that is not active answers "Invalid interval" and creates no
\* Subscription and no task.
C3_InvalidIntervalRejected ==
    [][\A c \in Chats, args \in StartArgs :
          (Command("track", c, args) /\ IntervalOf(args) \notin {1, 5, 15, 30, 60}
           /\ ~ActivePair(c, args[2])) =>
              /\ handler'.text = "Invalid interval"
              /\ SubsOf(active_trackers') = SubsOf(active_trackers)
              /\ coro' = coro
              /\ \A d \in DOMAIN tasks : tasks'[d] = tasks[d]
              /\ \A d \in DOMAIN tasks' \ DOMAIN tasks : tasks'[d] = <<>>]_vars

\* start_tracking has just refused an interval for a chat that tracks nothing.
C3_Witness ==
    /\ handler.cmd = "track" /\ handler.text = "Invalid interval"
    /\ handler.via = "send_message"
    /\ NoSubscription(handler.chat_id)

\* ------------------------------------------------------------------------ C4
\* C4: in every state in which a chat has no active Subscription, a stop
\* command without contract answers "Not tracking any token in this chat"
\* (stop_tracking returns False).
C4_StopAllNotFound ==
    [][\A c \in Chats :
          (Command("stop", c, <<>>) /\ NoSubscription(c)) =>
              handler'.text = "Not tracking any token in this chat"]_vars

\* ------------------------------------------------------------------------ C5
\* No entry of chat c in any of the five dicts of store S.
NoEntry(S, c) ==
    /\ c \notin DOMAIN S.active_trackers /\ c \notin DOMAIN S.tasks
    /\ c \notin DOMAIN S.initial_prices /\ c \notin DOMAIN S.initial_fdv
    /\ c \notin DOMAIN S.alert_intervals

\* C5: a stop command without contract in a chat with at least one active
\* Subscription answers "Stopped tracking all tokens"; every task of the
\* chat's list has then ended or carries a cancellation request, no loop of
\* the chat is left uncancelled, the chat has no entry in any of the five
\* dicts, and a stop without contract in the state reached answers
\* "Not tracking any token in this chat".
C5_StopAllRemovesChat ==
    [][\A c \in Chats :
          (Command("stop", c, <<>>) /\ ~NoSubscription(c)) =>
              /\ handler'.text = "Stopped tracking all tokens"
              /\ \A t \in TasksOf(tasks, c) : t \notin DOMAIN coro' \/ coro'[t].cancelled
              /\ \A a \in Contracts : LoopsOf(coro', c, a) = {}
              /\ NoEntry(Store', c)
              /\ stop(Store', c, <<>>).h.text = "Not tracking any token in this chat"]_vars

\* A batch stop has just cancelled the two loops of a chat.
C5_Witness ==
    /\ handler.cmd = "stop" /\ handler.text = "Stopped tracking all tokens"
    /\ Cardinality({t \in DOMAIN coro : coro[t].cancelled
                                        /\ coro[t].chat_id = handler.chat_id}) = 2
    /\ NoEntry(Store, handler.chat_id)

\* ------------------------------------------------------------------------ C6
\* C6: a stop command naming a contract the chat does not track (the chat
\* unknown, or tracking other contracts) answers "Not tracking any token in
\* this chat" and leaves the five dicts and every task as they were.
C6_StopUnknownPair ==
    [][\A c \in Chats, a \in Contracts :
          (Command("stop", c, <<a>>) /\ ~ActivePair(c, a)) =>
              /\ handler'.text = "Not tracking any token in this chat"
              /\ UNCHANGED store_vars]_vars

\* A stop naming an untracked contract was refused in a chat that tracks another.
C6_Witness ==
    /\ handler.cmd = "stop" /\ handler.args # <<>>
    /\ handler.text = "Not tracking any token in this chat"
    /\ ~NoSubscription(handler.chat_id)
    /\ ~ActivePair(handler.chat_id, handler.args[1])

\* ------------------------------------------------------------------------ C7
\* What store S holds for the Subscription (d, b): its pair, interval,
\* baseline and the frame of the task at the pair's index.
Held(S, d, b) ==
    LET i == CHOOSE j \in 1..Len(S.active_trackers[d]) : S.active_trackers[d][j][2] = b
    IN  [pair |-> S.active_trackers[d][i],
         interval |-> S.alert_intervals[d][b],
         price |-> IF b \in DOMAIN S.initial_prices[d] THEN S.initial_prices[d][b] ELSE None,
         fdv |-> IF b \in DOMAIN S.initial_fdv[d] THEN S.initial_fdv[d][b] ELSE None,
         task |-> S.tasks[d][i],
         frame |-> S.coro[S.tasks[d][i]]]

\* (d, b) is registered in store S.
Registered(S, d, b) ==
    d \in DOMAIN S.active_trackers
    /\ \E j \in 1..Len(S.active_trackers[d]) : S.active_trackers[d][j][2] = b

\* C7: a stop command naming an active pair (c, a) answers "Stopped
\* tracking"; the task at the pair's index polls a and has ended or carries
\* a cancellation request; (c, a) is registered no more and neither its
\* interval nor its baseline is kept; every other registered pair of every
\* chat is registered as before with the same network, interval, baseline
\* and task, and that task's frame is untouched, not cancelled and polls the
\* pair's own contract.
C7_StopOneFrame ==
    [][\A c \in Chats, a \in Contracts :
          (Command("stop", c, <<a>>) /\ ActivePair(c, a)) =>
              /\ handler'.text = "Stopped tracking"
              /\ Held(Store, c, a).frame.contract_address = a
              /\ Held(Store, c, a).frame.chat_id = c
              /\ LET t == Held(Store, c, a).task IN
                     t \notin DOMAIN coro' \/ coro'[t].cancelled
              /\ ~Registered(Store', c, a)
              /\ c \in DOMAIN alert_intervals' =>
                     /\ a \notin DOMAIN alert_intervals'[c]
                     /\ a \notin DOMAIN initial_prices'[c]
                     /\ a \notin DOMAIN initial_fdv'[c]
              /\ \A d \in Chats, b \in Contracts :
                     (Registered(Store, d, b) /\ <<d, b>> # <<c, a>>) =>
                         /\ Registered(Store', d, b)
                         /\ Held(Store', d, b) = Held(Store, d, b)
                         /\ ~Held(Store', d, b).frame.cancelled
                         /\ Held(Store', d, b).frame.contract_address = b
                         /\ Held(Store', d, b).frame.chat_id = d]_vars

\* The second token of a chat was stopped; the first stays, its baseline set
\* and its loop running.
C7_Witness ==
    /\ handler.cmd = "stop" /\ handler.text = "Stopped tracking"
    /\ \E b \in Contracts :
          /\ Registered(Store, handler.chat_id, b)
          /\ Held(Store, handler.chat_id, b).price # None
          /\ Held(Store, handler.chat_id, b).frame.pc = "sleep"
          /\ \E t \in DOMAIN coro : coro[t].cancelled /\ coro[t].chat_id = handler.chat_id
                                    /\ t < Held(Store, handler.chat_id, b).task

\* ------------------------------------------------------------------------ C8
\* C8: a step that leaves a pair registered leaves a baseline that is set as
\* it is, price and valuation alike, whatever the provider answers and
\* whichever task takes the step.  (A pair registered before and after one
\* step is in the same lifetime: a stop unregisters it.)
C8_BaselineFixed ==
    [][\A c \in Chats, a \in Contracts :
          (Registered(Store, c, a) /\ Registered(Store', c, a)
           /\ Held(Store, c, a).price # None) =>
              /\ Held(Store', c, a).price = Held(Store, c, a).price
              /\ Held(Store', c, a).fdv = Held(Store, c, a).fdv]_vars

\* A later fetch brought another price and another valuation: the update in
\* flight shows them beside the baseline, which the store still holds; a
\* second Subscription is being polled meanwhile.
C8_Witness ==
    \E t \in DOMAIN coro :
        /\ coro[t].pc = "send" /\ coro[t].msg.text = "update" /\ ~coro[t].cancelled
        /\ coro[t].msg.price # coro[t].msg.initial_price
        /\ coro[t].msg.fdv # coro[t].msg.initial_fdv
        /\ Registered(Store, coro[t].chat_id, coro[t].contract_address)
        /\ Held(Store, coro[t].chat_id, coro[t].contract_address).price
               = coro[t].msg.initial_price
        /\ Held(Store, coro[t].chat_id, coro[t].contract_address).fdv
               = coro[t].msg.initial_fdv
        /\ \E u \in DOMAIN coro \ {t} : coro[u].pc = "fetch" /\ ~coro[u].cancelled

\* ------------------------------------------------------------------------ C9
\* C9: no exception leaves the polling loop: the task of every registered
\* Subscription is still running its loop.
C9_LoopNeverRaises ==
    \A c \in Chats, a \in Contracts :
        Registered(Store, c, a) => Held(Store, c, a).frame.pc # "raised"

\* ----------------------------------------------------------------------- C10
\* The answers that are failures of the provider: the request raises, the
\* status is not 200, the body is malformed, the body has no price.
ProviderFailures ==
    {r \in Responses : r.raises \/ r.status # HTTP_OK \/ ~r.wellformed \/ r.price = None}

ErrorTexts == {"Error tracking", "Error fetching price", "Could not fetch price"}

\* The five dicts.
dicts == <<active_trackers, tasks, initial_prices, initial_fdv, alert_intervals>>

\* C10: a task that is not cancelled and meets a provider failure hands one
\* error notice naming its own contract to the sink and changes neither the
\* five dicts nor its is_first_message; when the sink accepts the notice the
\* task goes to sleep for its own interval, its pair still registered and
\* the dicts unchanged; and when the sleep returns it is fetching again.
C10_ProviderFailureAbsorbed ==
    [][\A t \in DOMAIN coro :
          /\ \A r \in ProviderFailures :
                (coro[t].pc = "fetch" /\ Fetched(t, r)) =>
                    /\ coro'[t].pc \in {"send", "sendErr"}
                    /\ coro'[t].msg.text \in ErrorTexts
                    /\ coro'[t].msg.addr = coro[t].contract_address
                    /\ coro'[t].is_first_message = coro[t].is_first_message
                    /\ UNCHANGED dicts
          /\ (coro[t].pc \in {"send", "sendErr"} /\ coro[t].msg.text \in ErrorTexts
              /\ (Delivered(t, TRUE) \/ HandlerDelivered(t, TRUE))) =>
                    /\ coro'[t].pc = "sleep"
                    /\ Registered(Store', coro[t].chat_id, coro[t].contract_address)
                    /\ coro'[t].delay
                         = alert_intervals[coro[t].chat_id][coro[t].contract_address] * SECONDS
                    /\ UNCHANGED dicts
          /\ (coro[t].pc = "sleep" /\ Wake(t)) =>
                    coro'[t].pc = "fetch" /\ UNCHANGED dicts]_vars

\* A Subscription whose baseline is set met a non-200 status on a later
\* fetch: the notice naming its contract is in flight, the baseline kept.
C10_Witness ==
    \E t \in DOMAIN coro :
        /\ coro[t].pc = "send" /\ coro[t].msg.text = "Error fetching price"
        /\ ~coro[t].cancelled /\ ~coro[t].is_first_message
        /\ coro[t].msg.addr = coro[t].contract_address
        /\ Registered(Store, coro[t].chat_id, coro[t].contract_address)
        /\ Held(Store, coro[t].chat_id, coro[t].contract_address).price # None

\* ----------------------------------------------------------------------- C11
\* The notices a loop sends for a failed iteration.
FaultTexts == ErrorTexts \cup {"Error formatting data"}

\* This step is a step of the uncancelled task t that ends in a fault: a
\* notice of a provider or formatting failure, the blanket handler entered
\* (a delivery fault or an exception), or the loop ended.
FaultStep(t) ==
    /\ handler = Idle /\ handler' = Idle
    /\ t \in DOMAIN coro /\ ~coro[t].cancelled
    /\ \/ t \notin DOMAIN coro'
       \/ /\ coro'[t] # coro[t]
          /\ \/ coro'[t].pc \in {"raised", "sendErr"}
             \/ coro'[t].pc = "send" /\ coro'[t].msg.text \in FaultTexts

\* C11: a fault step of one loop leaves every Subscription polled by another
\* task registered, with the same network, interval, baseline and task, and
\* that task's frame as it was (its position in its iteration included, so
\* its next step is the one it would have taken).
C11_FaultIsLocal ==
    [][\A t \in TaskIds : FaultStep(t) =>
          \A d \in Chats, b \in Contracts :
              (Registered(Store, d, b) /\ Held(Store, d, b).task # t) =>
                  /\ Registered(Store', d, b)
                  /\ Held(Store', d, b) = Held(Store, d, b)]_vars

\* A loop has ended by an exception; the other Subscription of the same chat
\* keeps its baseline and is fetching again.
C11_Witness ==
    \E t \in DOMAIN coro :
        /\ coro[t].pc = "raised"
        /\ \E b \in Contracts :
              /\ Registered(Store, coro[t].chat_id, b)
              /\ Held(Store, coro[t].chat_id, b).task # t
              /\ Held(Store, coro[t].chat_id, b).price # None
              /\ Held(Store, coro[t].chat_id, b).frame.pc = "fetch"

\* ----------------------------------------------------------------------- C12
\* The answers with status 200 and a usable price and valuation but no pool.
PoolLess ==
    {r \in Responses : /\ ~r.raises /\ r.status = HTTP_OK /\ r.wellformed
                       /\ r.price \notin {None, Garbage} /\ r.fdv # Garbage
                       /\ r.included = <<>>}

\* C12: a loop that fetches a pool-less answer hands a price update to the
\* sink, not a notice: the update shows the fetched price, the volume as
\* $0\.0 and the percentage as 0%; a first successful fetch sets the
\* baseline to the fetched price and valuation, a later one leaves it.
C12_PoolLessUpdate ==
    [][\A t \in DOMAIN coro, r \in PoolLess :
          (coro[t].pc = "fetch" /\ Fetched(t, r)) =>
              LET c == coro[t].chat_id
                  a == coro[t].contract_address
              IN  /\ coro'[t].pc = "send" /\ coro'[t].msg.text = "update"
                  /\ coro'[t].msg.addr = a
                  /\ coro'[t].msg.price = r.price
                  /\ coro'[t].msg.vol_5m_str = <<"$", "0", "\\", ".", "0">>
                  /\ coro'[t].msg.percentage_str = <<"0", "%">>
                  /\ ~coro'[t].is_first_message
                  /\ coro[t].is_first_message =>
                         /\ initial_prices'[c][a] = r.price
                         /\ initial_fdv'[c][a] = float_or_zero(r.fdv)
                  /\ ~coro[t].is_first_message =>
                         UNCHANGED <<initial_prices, initial_fdv>>]_vars

\* An update without pool figures is in flight for a Subscription whose
\* baseline was set by an earlier fetch at another price.
C12_Witness ==
    \E t \in DOMAIN coro :
        /\ coro[t].pc = "send" /\ coro[t].msg.text = "update" /\ ~coro[t].cancelled
        /\ coro[t].msg.vol_5m_str = <<"$", "0", "\\", ".", "0">>
        /\ coro[t].msg.percentage_str = <<"0", "%">>
        /\ coro[t].msg.initial_price # coro[t].msg.price

\* ----------------------------------------------------------------------- C13
\* The places of chat c's task list that hold a handle of a loop bound to (c, a).
HandlesOf(c, a) ==
    IF c \in DOMAIN tasks
    THEN {i \in 1..Len(tasks[c]) : /\ coro[tasks[c][i]].chat_id = c
                                   /\ coro[tasks[c][i]].contract_address = a}
    ELSE {}

\* C13: in every state (c, a) is registered exactly when the task lists hold
\* one handle of a loop bound to (c, a) and that handle is not cancelled.
C13_HandleIff ==
    \A c \in Chats, a \in Contracts :
        Registered(Store, c, a) <=>
            /\ Cardinality(HandlesOf(c, a)) = 1
            /\ \A i \in HandlesOf(c, a) : ~coro[tasks[c][i]].cancelled

\* One token of a chat was stopped, its cancelled loop not yet ended and its
\* handle gone; the other token is registered and its handle held.
C13_Witness ==
    \E t \in DOMAIN coro :
        /\ coro[t].cancelled
        /\ ~Registered(Store, coro[t].chat_id, coro[t].contract_address)
        /\ HandlesOf(coro[t].chat_id, coro[t].contract_address) = {}
        /\ \E b \in Contracts : /\ Registered(Store, coro[t].chat_id, b)
                                 /\ Cardinality(HandlesOf(coro[t].chat_id, b)) = 1

\* ----------------------------------------------------------------------- C14
\* C14: in every state a chat has an entry in the store exactly when it has
\* an active Subscription.
C14_EntryIffSubscription ==
    \A c \in Chats : (c \in DOMAIN active_trackers) <=> ~NoSubscription(c)

\* ----------------------------------------------------------------------- C15
\* The uncancelled loops of (c, a) whose provider request is in progress in
\* the task table k.
Fetching(k, c, a) == {t \in LoopsOf(k, c, a) : k[t].pc = "fetch"}

\* C15: after every step at most one uncancelled loop of a pair has a
\* provider request in progress; a loop issues a request only from its start
\* or from its interval wait; and a cancelled loop takes no step but its end.
C15_NoOverlappingFetch ==
    [][/\ \A c \in Chats, a \in Contracts : Cardinality(Fetching(coro', c, a)) <= 1
       /\ \A t \in DOMAIN coro :
             /\ StartsIteration(t) => coro[t].pc \in {"start", "sleep"} /\ ~coro[t].cancelled
             /\ (coro[t].cancelled /\ t \in DOMAIN coro') => coro'[t] = coro[t]]_vars

\* A pair was stopped while its request was in progress and started again:
\* the cancelled loop has not ended yet, the new loop has issued its request.
C15_Witness ==
    \E t, u \in DOMAIN coro :
        /\ coro[t].cancelled /\ coro[t].pc = "fetch"
        /\ ~coro[u].cancelled /\ coro[u].pc = "fetch"
        /\ coro[u].chat_id = coro[t].chat_id
        /\ coro[u].contract_address = coro[t].contract_address
        /\ Registered(Store, coro[u].chat_id, coro[u].contract_address)

\* ----------------------------------------------------------------------- C16
\* C16: a loop begins an iteration other than its first only out of a wait,
\* and the wait was of the interval registered for its pair; the interval
\* registered at a successful Start is the one the command carried; and a
\* step that leaves a pair registered with the same task leaves its interval.
C16_IntervalBetweenFetches ==
    [][/\ \A t \in DOMAIN coro :
             (StartsIteration(t) /\ coro[t].pc # "start") =>
                 /\ coro[t].pc = "sleep"
                 /\ Registered(Store, coro[t].chat_id, coro[t].contract_address)
                 /\ coro[t].delay
                      = alert_intervals[coro[t].chat_id][coro[t].contract_address] * SECONDS
       /\ (handler = Idle /\ handler'.cmd = "track" /\ handler'.text = "Started tracking") =>
             /\ IntervalOf(handler'.args) \in {1, 5, 15, 30, 60}
             /\ alert_intervals'[handler'.chat_id][handler'.args[2]] = IntervalOf(handler'.args)
       /\ \A c \in Chats, a \in Contracts :
             (Registered(Store, c, a) /\ Registered(Store', c, a)
              /\ Held(Store', c, a).task = Held(Store, c, a).task) =>
                 alert_intervals'[c][a] = alert_intervals[c][a]]_vars

\* Two loops wait, each for its own interval: one of five minutes after an
\* iteration that failed before any baseline, one of one minute after an
\* update.
C16_Witness ==
    \E t, u \in DOMAIN coro :
        /\ coro[t].pc = "sleep" /\ coro[t].delay = 5 * SECONDS /\ coro[t].is_first_message
        /\ coro[u].pc = "sleep" /\ coro[u].delay = SECONDS /\ ~coro[u].is_first_message
        /\ ~coro[t].cancelled /\ ~coro[u].cancelled

\* ----------------------------------------------------------------------- C17
\* The answers that reach the update path: status 200, a price, and figures
\* that convert.
Usable == {r \in Responses : /\ ~r.raises /\ r.status = HTTP_OK /\ r.wellformed
                             /\ r.price # None /\ ~conversion_fails(r)}

\* C17: a successful Start registers its pair with no baseline and a task
\* that has fetched nothing; a step that leaves a pair registered and
\* finds its baseline empty leaves it empty, unless the step is a usable
\* fetch of the pair's own task, which sets it to the fetched price and
\* valuation; a fetch that is not usable writes no baseline; and the
\* baseline an update displays is the one the store holds for the pair.
C17_BaselineOfLifetime ==
    [][/\ (handler = Idle /\ handler'.cmd = "track" /\ handler'.text = "Started tracking") =>
             LET c == handler'.chat_id
                 a == handler'.args[2]
             IN  /\ Registered(Store', c, a)
                 /\ Held(Store', c, a).price = None /\ Held(Store', c, a).fdv = None
                 /\ Held(Store', c, a).frame = create_task(c, handler'.args[1], a)
       /\ \A c \in Chats, a \in Contracts :
             (Registered(Store, c, a) /\ Registered(Store', c, a)
              /\ Held(Store, c, a).price = None) =>
                 \/ Held(Store', c, a).price = None /\ Held(Store', c, a).fdv = None
                 \/ \E r \in Usable :
                       /\ Fetched(Held(Store, c, a).task, r)
                       /\ Held(Store', c, a).price = r.price
                       /\ Held(Store', c, a).fdv = float_or_zero(r.fdv)
       /\ \A t \in DOMAIN coro :
             /\ \A r \in Responses \ Usable :
                   (coro[t].pc = "fetch" /\ Fetched(t, r)) =>
                       UNCHANGED <<initial_prices, initial_fdv>>
             /\ \A r \in Usable :
                   (coro[t].pc = "fetch" /\ Fetched(t, r)) =>
                       /\ coro'[t].msg.text = "update"
                       /\ coro'[t].msg.initial_price
                            = initial_prices'[coro[t].chat_id][coro[t].contract_address]
                       /\ coro'[t].msg.initial_fdv
                            = initial_fdv'[coro[t].chat_id][coro[t].contract_address]
                       /\ coro[t].is_first_message =>
                              /\ coro'[t].msg.initial_price = r.price
                              /\ coro'[t].msg.initial_fdv = float_or_zero(r.fdv)]_vars

\* A pair whose earlier lifetime had a baseline was stopped and started
\* again: the old loop is cancelled and not yet ended, the new Subscription
\* has met a failed fetch and holds no baseline.
C17_Witness ==
    \E t, u \in DOMAIN coro :
        /\ coro[t].cancelled /\ ~coro[t].is_first_message
        /\ ~coro[u].cancelled /\ coro[u].is_first_message /\ coro[u].pc = "sleep"
        /\ coro[u].chat_id = coro[t].chat_id
        /\ coro[u].contract_address = coro[t].contract_address
        /\ Registered(Store, coro[u].chat_id, coro[u].contract_address)
        /\ Held(Store, coro[u].chat_id, coro[u].contract_address).task = u
        /\ Held(Store, coro[u].chat_id, coro[u].contract_address).price = None

\* ----------------------------------------------------------------------- C18
\* The entries task t reads and writes are present in store S: its chat in
\* the baseline and interval dicts, its contract among the chat's intervals.
KeysPresent(S, t) ==
    LET c == S.coro[t].chat_id
        a == S.coro[t].contract_address
    IN  /\ c \in DOMAIN S.initial_prices /\ c \in DOMAIN S.initial_fdv
        /\ c \in DOMAIN S.alert_intervals
        /\ a \in DOMAIN S.alert_intervals[c]

\* C18: after every step every loop that is neither cancelled nor ended has
\* its entries present; a usable fetch of such a loop ends in an update (the
\* baseline was written and read), and a delivery the sink accepts ends in
\* the wait (the interval was looked up): no step fails on a missing key.
C18_NoMissingKey ==
    [][/\ \A t \in DOMAIN coro' :
             (~coro'[t].cancelled /\ coro'[t].pc # "raised") => KeysPresent(Store', t)
       /\ \A t \in DOMAIN coro :
             /\ \A r \in Usable :
                   (coro[t].pc = "fetch" /\ Fetched(t, r)) => coro'[t].msg.text = "update"
             /\ (coro[t].pc \in {"send", "sendErr"}
                 /\ (Delivered(t, TRUE) \/ HandlerDelivered(t, TRUE))) =>
                     coro'[t].pc = "sleep"]_vars

\* A stop met a loop in the middle of its iteration: the loop is cancelled,
\* its entries gone; another loop has looked up its interval and waits.
C18_Witness ==
    \E t, u \in DOMAIN coro :
        /\ coro[t].cancelled /\ coro[t].pc \in {"fetch", "send"} /\ ~KeysPresent(Store, t)
        /\ ~coro[u].cancelled /\ coro[u].pc = "sleep" /\ ~coro[u].is_first_message
        /\ KeysPresent(Store, u)

\* ----------------------------------------------------------------------- C19
\* The contracts chat c tracks.
Tracked(c) == {active_trackers[c][i][2] : i \in 1..Len(active_trackers[c])}

\* C19: in every state the five dicts have the same chats; for each chat the
\* task list is as long as the tracker list and the task at an index was
\* created for the chat and the pair at that index; the chat's intervals are
\* keyed by exactly the tracked contracts, each in {1, 5, 15, 30, 60}; the
\* chat's baseline prices and valuations have the same keys, all tracked.
C19_DictsAgree ==
    /\ DOMAIN tasks = DOMAIN active_trackers
    /\ DOMAIN initial_prices = DOMAIN active_trackers
    /\ DOMAIN initial_fdv = DOMAIN active_trackers
    /\ DOMAIN alert_intervals = DOMAIN active_trackers
    /\ \A c \in DOMAIN active_trackers :
          /\ Len(tasks[c]) = Len(active_trackers[c])
          /\ \A i \in 1..Len(active_trackers[c]) :
                /\ tasks[c][i] \in DOMAIN coro
                /\ coro[tasks[c][i]].chat_id = c
                /\ coro[tasks[c][i]].network = active_trackers[c][i][1]
                /\ coro[tasks[c][i]].contract_address = active_trackers[c][i][2]
          /\ DOMAIN alert_intervals[c] = Tracked(c)
          /\ \A a \in DOMAIN alert_intervals[c] : alert_intervals[c][a] \in {1, 5, 15, 30, 60}
          /\ DOMAIN initial_prices[c] = DOMAIN initial_fdv[c]
          /\ DOMAIN initial_prices[c] \subseteq Tracked(c)

\* A chat tracks two contracts, one with its baseline set and one without,
\* while the other chat holds the empty entries of a refused Start.
C19_Witness ==
    \E c, d \in DOMAIN active_trackers :
        /\ Len(active_trackers[c]) = 2
        /\ Cardinality(DOMAIN initial_prices[c]) = 1
        /\ active_trackers[d] = <<>>

\* ----------------------------------------------------------------------- C20
\* The error replies of the track command.
ErrorReplies ==
    {"Invalid interval", "Invalid format", "Please provide network and address",
     "Already tracking"}

\* C20: a track command that creates a Subscription or a task starts by
\* answering "Started tracking"; a track command that starts with an error
\* reply creates nothing; and a command that answered "Started tracking"
\* never goes on to answer with an error reply.
C20_ErrorReplyCreatesNothing ==
    [][/\ (handler = Idle /\ handler'.cmd = "track") =>
             /\ handler'.text \in ErrorReplies =>
                    SubsOf(active_trackers') = SubsOf(active_trackers) /\ coro' = coro
             /\ (SubsOf(active_trackers') # SubsOf(active_trackers) \/ coro' # coro) =>
                    handler'.text = "Started tracking"
       /\ (handler.cmd = "track" /\ handler.text = "Started tracking") =>
             handler'.text \notin ErrorReplies]_vars
====
